---- MODULE Spec2Model ----
(***************************************************************************)
(* A model of ecoflux.radtrans.solar_radiation.solar_angle (the NOAA solar *)
(* position algorithm).                                                    *)
(*                                                                         *)
(* Python floats are modelled as fixed-point integers, the unit of every   *)
(* quantity being stated with its definition:                              *)
(*   angles in degrees, and times in minutes ......... unit 10^-5  (Deg)   *)
(*   dimensionless values (sines, ratios) ............ unit 10^-6  (One)   *)
(*   fractions of a day .............................. unit 10^-6  (One)   *)
(*   the Julian century .............................. unit 10^-9          *)
(*   the Julian date ....... whole seconds counted from JD 2440000.5       *)
(* NaN is a value of its own: every comparison with it is false and every  *)
(* operation on it yields it, as in IEEE arithmetic.  The integers of the  *)
(* model checker are 32 bits wide, which is why products go through Mul6,  *)
(* Mul8 and Mul9 instead of a multiplication followed by a division.       *)
(***************************************************************************)
EXTENDS Integers, Sequences, FiniteSets, TLC

VARIABLES
  pc,        \* "call": solar_angle is about to run on args; "done": it ended
             \* "refract"/"refracted": the refraction step alone, on elev_arg
  args,      \* the arguments of the call: [dt, lat, lon, timezone]
  exc,       \* "none", or the exception solar_angle ended with
  locals,    \* the local variables solar_angle had assigned when it ended
  result,    \* the returned SolarAngleResult as a tuple, <<>> when none
  elev_arg,  \* the uncorrected elevation given to the refraction step
  refrac     \* what the refraction step selected: [branch, value]

vars == <<pc, args, exc, locals, result, elev_arg, refrac>>

----------------------------------------------------------------------------
(* Fixed-point arithmetic                                                  *)

One == 10^6
Deg == 10^5
NaN == 0 - 2147483647

IsNaN(x) == x = NaN
Abs(x) == IF x < 0 THEN -x ELSE x
SameSign(a, b) == (a < 0) = (b < 0)

\* a / b rounded to the nearest integer, b > 0
RDiv(a, b) ==
  IF a >= 0 THEN (a + b \div 2) \div b ELSE -((b \div 2 - a) \div b)

\* a * b / 10^6 rounded, for |a|, |b| <= 2 * 10^9 / 1000 * 1000
Mul6(a, b) ==
  LET x  == Abs(a)
      y  == Abs(b)
      ah == x \div 1000
      al == x % 1000
      bh == y \div 1000
      bl == y % 1000
      m  == ah * bh + (ah * bl + al * bh + (al * bl) \div 1000 + 500) \div 1000
  IN IF SameSign(a, b) THEN m ELSE -m

\* a * 10^6 / b rounded, for 0 < |b| <= 2 * 10^6
Div6(a, b) ==
  LET x  == Abs(a)
      y  == Abs(b)
      r  == x % y
      d1 == (r * 1000) \div y
      r2 == (r * 1000) % y
      d2 == (r2 * 1000 + y \div 2) \div y
      m  == (x \div y) * One + d1 * 1000 + d2
  IN IF SameSign(a, b) THEN m ELSE -m

\* The product of x, y >= 0 in limbs of three decimal digits: ProdHigh is
\* its part in units of 10^9 but for ProdMid, the rest in units of 10^6
\* rounded down.
ProdHigh(x, y) ==
    (x \div 10^6) * (y \div 10^6) * 1000
  + (x \div 10^6) * ((y \div 1000) % 1000)
  + ((x \div 1000) % 1000) * (y \div 10^6)

ProdMid(x, y) ==
    (x \div 10^6) * (y % 1000)
  + ((x \div 1000) % 1000) * ((y \div 1000) % 1000)
  + (x % 1000) * (y \div 10^6)
  + (  ((x \div 1000) % 1000) * (y % 1000)
     + (x % 1000) * ((y \div 1000) % 1000)
     + ((x % 1000) * (y % 1000)) \div 1000) \div 1000

\* a * b / 10^9 rounded, exact for every a, b
Mul9(a, b) ==
  IF SameSign(a, b)
  THEN ProdHigh(Abs(a), Abs(b)) + (ProdMid(Abs(a), Abs(b)) + 500) \div 1000
  ELSE -(ProdHigh(Abs(a), Abs(b)) + (ProdMid(Abs(a), Abs(b)) + 500) \div 1000)

\* a * b / 10^8 rounded, exact for every a, b
Mul8(a, b) ==
  IF SameSign(a, b)
  THEN ProdHigh(Abs(a), Abs(b)) * 10
       + (ProdMid(Abs(a), Abs(b)) + 50) \div 100
  ELSE -(ProdHigh(Abs(a), Abs(b)) * 10
         + (ProdMid(Abs(a), Abs(b)) + 50) \div 100)

----------------------------------------------------------------------------
(* Trigonometry: _np.sin, _np.cos, _np.tan of _np.radians(x), and          *)
(* _np.degrees of _np.arccos, _np.arcsin, on angles in units of 10^-5 deg  *)

\* sin of 0, 1, ..., 90 degrees, unit 10^-6
SinTab ==
  << 0, 17452, 34899, 52336, 69756, 87156, 104528,
     121869, 139173, 156434, 173648, 190809, 207912, 224951,
     241922, 258819, 275637, 292372, 309017, 325568, 342020,
     358368, 374607, 390731, 406737, 422618, 438371, 453990,
     469472, 484810, 500000, 515038, 529919, 544639, 559193,
     573576, 587785, 601815, 615661, 629320, 642788, 656059,
     669131, 681998, 694658, 707107, 719340, 731354, 743145,
     754710, 766044, 777146, 788011, 798636, 809017, 819152,
     829038, 838671, 848048, 857167, 866025, 874620, 882948,
     891007, 898794, 906308, 913545, 920505, 927184, 933580,
     939693, 945519, 951057, 956305, 961262, 965926, 970296,
     974370, 978148, 981627, 984808, 987688, 990268, 992546,
     994522, 996195, 997564, 998630, 999391, 999848, 1000000 >>

\* sin(y) for 0 <= y <= 90 deg: the table at the whole degree d, and the
\* fraction f by sin(d + f) = sin d cos f + cos d sin f with
\* sin f = r - r^3/6, cos f = 1 - r^2/2, r = f in radians (unit 10^-8)
SinQ(y) ==
  LET d    == y \div Deg
      f    == y % Deg
      r8   == f * 17 + (f * 4533) \div 10000
      r2   == Mul6(r8, r8)
      cosf == 10^8 - r2 \div 200
      sinf == r8 - Mul6(r8, r2) \div 60000
  IN IF f = 0 THEN SinTab[d + 1]
     ELSE RDiv(Mul6(SinTab[d + 1], cosf) + Mul6(SinTab[91 - d], sinf), 100)

\* _np.sin(_np.radians(x))
SinDeg(x) ==
  LET m == x % (360 * Deg)
  IN IF m <= 90 * Deg THEN SinQ(m)
     ELSE IF m <= 180 * Deg THEN SinQ(180 * Deg - m)
     ELSE IF m <= 270 * Deg THEN -SinQ(m - 180 * Deg)
     ELSE -SinQ(360 * Deg - m)

\* _np.cos(_np.radians(x))
CosDeg(x) == SinDeg(x + 90 * Deg)

\* _np.tan(_np.radians(x)); at a zero cosine the quotient is not finite
TanDeg(x) ==
  IF CosDeg(x) = 0 THEN NaN ELSE Div6(SinDeg(x), CosDeg(x))

\* 1 / _np.tan(_np.radians(x)), for sin x # 0
CotDeg(x) == Div6(CosDeg(x), SinDeg(x))

\* The arccosine is searched digit by digit, the cosine falling from 0 to
\* 180 degrees: lo is an angle whose cosine is above v, and ArccosRefine
\* moves it up by as many of the n next steps as keep the cosine above v.
ArccosRefine(v, lo, step, n) ==
  lo + step * Cardinality({k \in 1..n : CosDeg(lo + k * step) > v})

\* _np.degrees(_np.arccos(v)): NaN outside [-1, 1], else the least angle
\* whose cosine is not above v
ArccosDeg(v) ==
  IF IsNaN(v) \/ v > One \/ v < -One THEN NaN
  ELSE IF v = One THEN 0
  ELSE 1 + ArccosRefine(v,
            ArccosRefine(v,
             ArccosRefine(v,
              ArccosRefine(v,
               ArccosRefine(v,
                ArccosRefine(v,
                 ArccosRefine(v, 0, 10^6, 17),
                 10^5, 9),
                10^4, 9),
               1000, 9),
              100, 9),
             10, 9),
            1, 9)

\* _np.degrees(_np.arcsin(v))
ArcsinDeg(v) ==
  IF IsNaN(ArccosDeg(v)) THEN NaN ELSE 90 * Deg - ArccosDeg(v)

\* _np.degrees(x), x in radians (unit 10^-6), the result in unit 10^-5
Degrees(x) == Mul6(x, 5729578)

----------------------------------------------------------------------------
(* solar_angle, stage by stage                                             *)

\* constants.eccentricity = 0.016704232, unit 10^-9
eccentricity == 16704232

\* days from 1970-01-01 to the civil date y-m-d (proleptic Gregorian), the
\* calendar arithmetic behind the subtraction of two datetime values
days_from_civil(y, m, d) ==
  LET yy  == IF m <= 2 THEN y - 1 ELSE y
      era == yy \div 400
      yoe == yy - era * 400
      mp  == IF m > 2 THEN m - 3 ELSE m + 9
      doy == (153 * mp + 2) \div 5 + d - 1
      doe == yoe * 365 + yoe \div 4 - yoe \div 100 + doy
  IN era * 146097 + doe - 719468

\* time_delta = dt - datetime.datetime(1968, 5, 24, 0, 0, 0): its .days and
\* its .seconds (the microseconds of dt are in neither)
time_delta_days(dt) ==
  days_from_civil(dt.year, dt.month, dt.day) - days_from_civil(1968, 5, 24)

time_delta_seconds(dt) == dt.hour * 3600 + dt.minute * 60 + dt.second

\* the Julian date with the timezone offset added instead of subtracted
julian_date_plus_timezone(dt, timezone) ==
  time_delta_days(dt) * 86400 + time_delta_seconds(dt) + timezone * 3600

\* julian_date = 2440000.5 + days + seconds / 86400 - timezone / 24, held as
\* the whole seconds (julian_date - 2440000.5) * 86400; timezone in hours
julian_date(dt, timezone) ==
  time_delta_days(dt) * 86400 + time_delta_seconds(dt) - timezone * 3600

\* julian_century = (julian_date - 2451545.0) / 36525.0, unit 10^-9:
\* 2451545.0 - 2440000.5 = 11544.5 days = 997444800 s, and one century is
\* 36525 * 86400 s, so that 10^9 / (36525 * 86400) = 12500 / 39447
julian_century(jd) ==
  IF jd >= 997444800
  THEN ((jd - 997444800) \div 39447) * 12500
       + RDiv(((jd - 997444800) % 39447) * 12500, 39447)
  ELSE -(((997444800 - jd) \div 39447) * 12500
         + RDiv(((997444800 - jd) % 39447) * 12500, 39447))

\* mod(280.46646 + jc * (36000.76983 + jc * 0.0003032), 360)
geom_mean_lon_sun(jc) ==
  (28046646 + Mul8(jc, 360007698 + RDiv(Mul9(jc, 3032), 1000)))
  % (360 * Deg)

\* 357.52911 + jc * (35999.05029 - 0.0001537 * jc)
geom_mean_anom_sun(jc) ==
  35752911 + Mul8(jc, 359990503 - RDiv(Mul9(jc, 1537), 1000))

\* _np.sin(_np.radians(x) * k), the angle reduced before it is multiplied
SinDegTimes(k, x) == SinDeg(k * (x % (360 * Deg)))

\* _np.cos(_np.radians(x) * k) and _np.cos(k * _np.radians(x))
CosDegTimes(k, x) == CosDeg(k * (x % (360 * Deg)))

\* the equation of center, three sines of the mean anomaly M
sun_eq_ctr(jc, M) ==
  RDiv(  Mul6(SinDegTimes(1, M),
              1914602 - Mul9(jc, 4817 + Mul9(jc, 14)))
       + Mul6(SinDegTimes(2, M), 19993 - Mul9(jc, 101))
       + Mul6(SinDegTimes(3, M), 289),
       10)

sun_true_lon(L0, C) == L0 + C

\* 125.04 - 1934.136 * jc, the argument of the nutation terms
nutation_arg(jc) == 12504000 - Mul9(jc, 193413600)

\* sun_true_lon - 0.00569 - 0.00478 * sin(radians(125.04 - 1934.136 * jc))
sun_app_lon(true_lon, jc) ==
  true_lon - 569 - Mul6(478, SinDeg(nutation_arg(jc)))

\* 23 + (26 + (21.448 - jc * (46.815 + jc * (0.00059 - jc * 0.001813)))
\*            / 60) / 60, the seconds and minutes of arc in unit 10^-6
mean_obliq_ecliptic(jc) ==
  LET sec ==
        21448000
        - Mul9(jc, 46815000 + Mul9(jc, 590 - Mul9(jc, 1813)))
  IN RDiv(23000000 + RDiv(26000000 + RDiv(sec, 60), 60), 10)

\* mean_obliq_ecliptic + 0.00256 * cos(radians(125.04 - 1934.136 * jc))
obliq_corr(moe, jc) == moe + Mul6(256, CosDeg(nutation_arg(jc)))

\* degrees(arcsin(sin(radians(obliq_corr)) * sin(radians(sun_app_lon))))
sun_declin(oc, app_lon) == ArcsinDeg(Mul6(SinDeg(oc), SinDeg(app_lon)))

\* tan(radians(obliq_corr / 2)) ** 2
var_y(oc) == Mul6(TanDeg(RDiv(oc, 2)), TanDeg(RDiv(oc, 2)))

\* the equation of time in minutes, 4 * degrees(the five NOAA terms)
eq_time(vy, L0, M) ==
  4 * Degrees(
      Mul6(vy, SinDegTimes(2, L0))
    - Mul9(2 * SinDegTimes(1, M), eccentricity)
    + Mul9(4 * Mul6(Mul6(vy, SinDegTimes(1, M)), CosDegTimes(2, L0)),
           eccentricity)
    - RDiv(Mul6(Mul6(vy, vy), SinDegTimes(4, L0)), 2)
    - Mul9(Mul9(RDiv(5 * SinDegTimes(2, M), 4), eccentricity),
           eccentricity))

\* degrees(arccos(cos(radians(90.833)) / (cos(lat) * cos(declin))
\*                - tan(lat) * tan(declin)))
\* a zero divisor makes the quotient infinite and the arccos NaN
HA_sunrise(lat, declin) ==
  LET den == Mul6(CosDeg(lat), CosDeg(declin))
  IN IF den = 0 \/ IsNaN(TanDeg(lat)) \/ IsNaN(TanDeg(declin)) THEN NaN
     ELSE ArccosDeg(  Div6(CosDeg(9083300), den)
                    - Mul6(TanDeg(lat), TanDeg(declin)))

\* minutes (unit 10^-5) to a fraction of a day (unit 10^-6): x / 1440
MinutesToDay(x) == RDiv(x, 144)

\* the solar noon with the sign of the longitude slipped
solar_noon_local_plus_lon(lon, eqt, timezone) ==
  MinutesToDay(720 * Deg + 4 * lon - eqt + timezone * 60 * Deg)

\* (720 - 4 * lon - eq_time + timezone * 60) / 1440
solar_noon_local(lon, eqt, timezone) ==
  MinutesToDay(720 * Deg - 4 * lon - eqt + timezone * 60 * Deg)

\* solar_noon_local - HA_sunrise * 4 / 1440
sunrise_local(noon, ha_sunrise) ==
  IF IsNaN(ha_sunrise) THEN NaN ELSE noon - MinutesToDay(ha_sunrise * 4)

\* the sunset with the sunrise line copied unchanged
sunset_local_minus(noon, ha_sunrise) ==
  IF IsNaN(ha_sunrise) THEN NaN ELSE noon - MinutesToDay(ha_sunrise * 4)

\* solar_noon_local + HA_sunrise * 4 / 1440
sunset_local(noon, ha_sunrise) ==
  IF IsNaN(ha_sunrise) THEN NaN ELSE noon + MinutesToDay(ha_sunrise * 4)

\* hour / 24 + minute / 1440 + (second + microsecond * 1e-6) / 86400
fractional_day(dt) ==
    RDiv(dt.hour * One, 24)
  + RDiv(dt.minute * One, 1440)
  + RDiv(dt.second * One + dt.microsecond, 86400)

\* the true solar time with the wrap to one day left out
true_solar_time_unwrapped(fd, eqt, lon, timezone) ==
  fd * 144 + eqt + 4 * lon - 60 * Deg * timezone

\* mod(fractional_day * 1440 + eq_time + 4 * lon - 60 * timezone, 1440)
true_solar_time_min(fd, eqt, lon, timezone) ==
  (fd * 144 + eqt + 4 * lon - 60 * Deg * timezone) % (1440 * Deg)

\* tst / 4 + 180 if tst / 4 < 0 else tst / 4 - 180
hour_angle(tst) ==
  IF RDiv(tst, 4) < 0 THEN RDiv(tst, 4) + 180 * Deg
  ELSE RDiv(tst, 4) - 180 * Deg

\* the argument of the arccos of the zenith angle
zenith_cos(lat, declin, ha) ==
    Mul6(SinDeg(lat), SinDeg(declin))
  + Mul6(Mul6(CosDeg(lat), CosDeg(declin)), CosDeg(ha))

\* degrees(arccos(sin(lat) sin(declin) + cos(lat) cos(declin) cos(ha)))
solar_zenith_angle(lat, declin, ha) == ArccosDeg(zenith_cos(lat, declin, ha))

\* 90 - solar_zenith_angle
solar_elev_angle(zenith) == IF IsNaN(zenith) THEN NaN ELSE 90 * Deg - zenith

\* degrees(arccos((sin(lat) * cos(zenith) - sin(declin))
\*                / (cos(lat) * sin(zenith)))), the same in both branches of
\* the azimuth: a zero divisor gives an infinite or NaN ratio, and a ratio
\* outside [-1, 1] gives NaN
azimuth_acos(lat, declin, zenith) ==
  IF IsNaN(zenith) THEN NaN
  ELSE LET num == Mul6(SinDeg(lat), CosDeg(zenith)) - SinDeg(declin)
           den == Mul6(CosDeg(lat), SinDeg(zenith))
       IN IF den = 0 \/ Abs(num) > Abs(den) THEN NaN
          ELSE ArccosDeg(Div6(num, den))

\* mod(acos + 180, 360) if hour_angle > 0 else mod(540 - acos, 360)
solar_azimuth_angle(ha, acos) ==
  IF IsNaN(acos) THEN NaN
  ELSE IF ha > 0 THEN (acos + 180 * Deg) % (360 * Deg)
  ELSE (540 * Deg - acos) % (360 * Deg)

----------------------------------------------------------------------------
(* The atmospheric refraction, keyed on the uncorrected elevation angle    *)

\* the comparisons of a float that may be NaN
FGt(a, b) == ~IsNaN(a) /\ a > b
FLe(a, b) == ~IsNaN(a) /\ a <= b

\* the conditions of the if / elif chain, each as the source writes it
refrac_cond1(e) == FGt(e, 85 * Deg)
refrac_cond2(e) == FGt(e, 5 * Deg) /\ FLe(e, 85 * Deg)
refrac_cond3_open(e) == FGt(e, -57500) /\ ~IsNaN(e) /\ e < 5 * Deg
refrac_cond3(e) == FGt(e, -57500) /\ FLe(e, 5 * Deg)
refrac_cond4(e) == FLe(e, -57500)

\* the branch the chain takes, 0 when it takes none and leaves
\* approx_atmos_refrac unassigned
refrac_branch(e) ==
  IF refrac_cond1(e) THEN 1
  ELSE IF refrac_cond2(e) THEN 2
  ELSE IF refrac_cond3(e) THEN 3
  ELSE IF refrac_cond4(e) THEN 4
  ELSE 0

\* (58.1 / tan(e) - 0.07 / tan(e)**3 + 0.000086 / tan(e)**5) / 3600, with
\* c = 1 / tan(e) and the sum nested as c * (58.1 - c^2 * (0.07 - 0.000086
\* * c^2)) so that no power of c leaves the 32-bit range; seconds of arc
\* in unit 10^-6
refrac_formula2(e) ==
  LET c  == CotDeg(e)
      c2 == Mul6(c, c)
  IN RDiv(Mul6(c, 58100000 - Mul6(c2, 70000 - Mul6(86, c2))), 36000)

refrac_formula3_cubic(e) ==
  LET e1 == 10 * e
      e2 == Mul6(e1, e1)
      e3 == Mul6(e2, e1)
  IN RDiv(  173500000 - Mul6(51820000, e1) + Mul6(10340000, e2)
          - Mul6(1279000, e3),
          3600)

\* (1735 - 518.2 e + 103.4 e**2 - 12.79 e**3 + 0.711 e**4) / 3600, e in
\* unit 10^-6 and the seconds of arc in unit 10^-5
refrac_formula3(e) ==
  LET e1 == 10 * e
      e2 == Mul6(e1, e1)
      e3 == Mul6(e2, e1)
      e4 == Mul6(e3, e1)
  IN RDiv(  173500000 - Mul6(51820000, e1) + Mul6(10340000, e2)
          - Mul6(1279000, e3) + Mul6(71100, e4),
          3600)

\* -20.774 / 3600 / tan(e), the seconds of arc in unit 10^-5
refrac_formula4(e) == RDiv(-Mul6(2077400, CotDeg(e)), 3600)

\* approx_atmos_refrac in the branch taken
approx_atmos_refrac(e) ==
  IF refrac_branch(e) = 1 THEN 0
  ELSE IF refrac_branch(e) = 2 THEN refrac_formula2(e)
  ELSE IF refrac_branch(e) = 3 THEN refrac_formula3(e)
  ELSE refrac_formula4(e)

\* solar_zenith_angle - approx_atmos_refrac
solar_zenith_angle_corr(zenith, r) == zenith - r

\* the corrected elevation with the sign of the correction slipped
solar_elev_angle_corr_minus(elev, r) == elev - r

\* solar_elev_angle + approx_atmos_refrac
solar_elev_angle_corr(elev, r) == elev + r

----------------------------------------------------------------------------
(* The result record                                                       *)

\* the field names of the namedtuple, in their order
SolarAngleResultFields ==
  << "solar_noon", "sunrise", "sunset", "hour_angle", "solar_zenith_angle",
     "solar_elevation_angle", "solar_azimuth_angle",
     "atmospheric_refraction", "solar_zenith_angle_corrected",
     "solar_elevation_angle_corrected" >>

\* the values with the zenith and the elevation in each other's position
SolarAngleResult_swapped(l) ==
  << l.solar_noon_local, l.sunrise_local, l.sunset_local, l.hour_angle,
     l.solar_elev_angle, l.solar_zenith_angle, l.solar_azimuth_angle,
     l.approx_atmos_refrac, l.solar_zenith_angle_corr,
     l.solar_elev_angle_corr >>

\* SolarAngleResult(...): the values given by position, from the locals
SolarAngleResult(l) ==
  << l.solar_noon_local, l.sunrise_local, l.sunset_local, l.hour_angle,
     l.solar_zenith_angle, l.solar_elev_angle, l.solar_azimuth_angle,
     l.approx_atmos_refrac, l.solar_zenith_angle_corr,
     l.solar_elev_angle_corr >>

\* the value of the field called name in the result tuple r
Field(r, name) ==
  r[CHOOSE i \in 1..Len(SolarAngleResultFields) :
      SolarAngleResultFields[i] = name]

----------------------------------------------------------------------------
(* solar_angle as a whole                                                  *)

\* the check as isinstance(dt, datetime.date) would make it
is_datetime_or_date(dt) == dt.kind \in {"datetime", "date"}

\* isinstance(dt, datetime.datetime)
is_datetime(dt) == dt.kind = "datetime"

NoLocals == [n \in {} |-> 0]

\* the locals l with one more name bound to a value
Bind(l, name, value) == l @@ (name :> value)

\* The statements of solar_angle up to the azimuth in their order, each one
\* taking the arguments a of the call and the locals l assigned so far, and
\* giving the locals back with its own target assigned.

assign_julian_date(a) ==
  Bind(NoLocals, "julian_date", julian_date(a.dt, a.timezone))

assign_julian_century(a, l) ==
  Bind(l, "julian_century", julian_century(l.julian_date))

assign_geom_mean_lon_sun(a, l) ==
  Bind(l, "geom_mean_lon_sun", geom_mean_lon_sun(l.julian_century))

assign_geom_mean_anom_sun(a, l) ==
  Bind(l, "geom_mean_anom_sun", geom_mean_anom_sun(l.julian_century))

assign_sun_eq_ctr(a, l) ==
  Bind(l, "sun_eq_ctr", sun_eq_ctr(l.julian_century, l.geom_mean_anom_sun))

assign_sun_true_lon(a, l) ==
  Bind(l, "sun_true_lon", sun_true_lon(l.geom_mean_lon_sun, l.sun_eq_ctr))

assign_sun_app_lon(a, l) ==
  Bind(l, "sun_app_lon", sun_app_lon(l.sun_true_lon, l.julian_century))

assign_mean_obliq_ecliptic(a, l) ==
  Bind(l, "mean_obliq_ecliptic", mean_obliq_ecliptic(l.julian_century))

assign_obliq_corr(a, l) ==
  Bind(l, "obliq_corr", obliq_corr(l.mean_obliq_ecliptic, l.julian_century))

assign_sun_declin(a, l) ==
  Bind(l, "sun_declin", sun_declin(l.obliq_corr, l.sun_app_lon))

assign_var_y(a, l) ==
  Bind(l, "var_y", var_y(l.obliq_corr))

assign_eq_time(a, l) ==
  Bind(l, "eq_time",
       eq_time(l.var_y, l.geom_mean_lon_sun, l.geom_mean_anom_sun))

assign_HA_sunrise(a, l) ==
  Bind(l, "HA_sunrise", HA_sunrise(a.lat, l.sun_declin))

assign_solar_noon_local(a, l) ==
  Bind(l, "solar_noon_local",
       solar_noon_local(a.lon, l.eq_time, a.timezone))

assign_sunrise_local(a, l) ==
  Bind(l, "sunrise_local", sunrise_local(l.solar_noon_local, l.HA_sunrise))

assign_sunset_local(a, l) ==
  Bind(l, "sunset_local", sunset_local(l.solar_noon_local, l.HA_sunrise))

assign_fractional_day(a, l) ==
  Bind(l, "fractional_day", fractional_day(a.dt))

assign_true_solar_time_min(a, l) ==
  Bind(l, "true_solar_time_min",
       true_solar_time_min(l.fractional_day, l.eq_time, a.lon, a.timezone))

assign_hour_angle(a, l) ==
  Bind(l, "hour_angle", hour_angle(l.true_solar_time_min))

assign_solar_zenith_angle(a, l) ==
  Bind(l, "solar_zenith_angle",
       solar_zenith_angle(a.lat, l.sun_declin, l.hour_angle))

assign_solar_elev_angle(a, l) ==
  Bind(l, "solar_elev_angle", solar_elev_angle(l.solar_zenith_angle))

assign_azimuth_acos(a, l) ==
  Bind(l, "azimuth_acos",
       azimuth_acos(a.lat, l.sun_declin, l.solar_zenith_angle))

assign_solar_azimuth_angle(a, l) ==
  Bind(l, "solar_azimuth_angle",
       solar_azimuth_angle(l.hour_angle, l.azimuth_acos))

\* the locals once the statements up to the azimuth have run
locals_after_azimuth(a) ==
  assign_solar_azimuth_angle(a,
   assign_azimuth_acos(a,
    assign_solar_elev_angle(a,
     assign_solar_zenith_angle(a,
      assign_hour_angle(a,
       assign_true_solar_time_min(a,
        assign_fractional_day(a,
         assign_sunset_local(a,
          assign_sunrise_local(a,
           assign_solar_noon_local(a,
            assign_HA_sunrise(a,
             assign_eq_time(a,
              assign_var_y(a,
               assign_sun_declin(a,
                assign_obliq_corr(a,
                 assign_mean_obliq_ecliptic(a,
                  assign_sun_app_lon(a,
                   assign_sun_true_lon(a,
                    assign_sun_eq_ctr(a,
                     assign_geom_mean_anom_sun(a,
                      assign_geom_mean_lon_sun(a,
                       assign_julian_century(a,
                        assign_julian_date(a)))))))))))))))))))))))

\* the locals assigned from the Julian date to the azimuth
locals_to_azimuth(dt, lat, lon, timezone) ==
  locals_after_azimuth([dt |-> dt, lat |-> lat, lon |-> lon,
                        timezone |-> timezone])

\* the refraction chain: the branch taken and the value it assigns
assign_approx_atmos_refrac(l) ==
  Bind(Bind(l, "refrac_branch", refrac_branch(l.solar_elev_angle)),
       "approx_atmos_refrac", approx_atmos_refrac(l.solar_elev_angle))

assign_solar_zenith_angle_corr(l) ==
  Bind(l, "solar_zenith_angle_corr",
       solar_zenith_angle_corr(l.solar_zenith_angle, l.approx_atmos_refrac))

assign_solar_elev_angle_corr(l) ==
  Bind(l, "solar_elev_angle_corr",
       solar_elev_angle_corr(l.solar_elev_angle, l.approx_atmos_refrac))

\* the locals assigned by the refraction chain and after it
locals_refraction(l) ==
  assign_solar_elev_angle_corr(
   assign_solar_zenith_angle_corr(
    assign_approx_atmos_refrac(l)))

\* the return statement with all the locals assigned
solar_angle_return(l) ==
  [exc |-> "none", locals |-> l, result |-> SolarAngleResult(l)]

\* solar_angle past its type check.  When no branch of the refraction chain
\* is taken, reading approx_atmos_refrac raises UnboundLocalError.
solar_angle_compute(l) ==
  IF refrac_branch(l.solar_elev_angle) = 0
  THEN [exc |-> "UnboundLocalError", locals |-> l, result |-> <<>>]
  ELSE solar_angle_return(locals_refraction(l))

\* solar_angle(dt, lat, lon, timezone): how it ends, with which locals
\* assigned, and what it returns
solar_angle(dt, lat, lon, timezone) ==
  IF ~is_datetime(dt)
  THEN [exc |-> "TypeError", locals |-> NoLocals, result |-> <<>>]
  ELSE solar_angle_compute(locals_to_azimuth(dt, lat, lon, timezone))

----------------------------------------------------------------------------
(* The calls that are made                                                 *)

NumDates == 5
NumTimes == 4
NumLats == 6
NumLons == 4
NumTimezones == 3
NumOtherDts == 3

FirstOf(list, n) ==
  {list[i] : i \in 1..(IF n <= Len(list) THEN n ELSE Len(list))}

\* year, month, day
DateList ==
  << <<2015, 6, 2>>, <<2015, 11, 23>>, <<2015, 12, 21>>, <<2000, 3, 20>>,
     <<1968, 5, 24>>, <<2000, 1, 1>> >>

\* hour, minute, second, microsecond
TimeList ==
  << <<12, 0, 0, 0>>, <<0, 0, 0, 0>>, <<6, 30, 15, 0>>,
     <<18, 0, 0, 500000>>, <<23, 59, 59, 999999>> >>

\* degrees, unit 10^-5
LatList == << 2217827, 2217000, 3400000, 8000000, -8000000, 0, -4500000 >>
LonList == << -51188, -11800000, 18000000, -18000000, 0 >>

\* hours
TimezoneList == << 0, 12, -8, -12 >>

\* arguments that are no datetime.datetime: a datetime.date (a calendar day
\* with no time of day, read as 00:00:00 by whatever takes it for a
\* datetime), a string, None, a number
OtherDtList ==
  << [kind |-> "date", year |-> 2015, month |-> 11, day |-> 23,
      hour |-> 0, minute |-> 0, second |-> 0, microsecond |-> 0],
     [kind |-> "str"], [kind |-> "NoneType"], [kind |-> "float"] >>

Datetimes ==
  { [kind |-> "datetime", year |-> d[1], month |-> d[2], day |-> d[3],
     hour |-> t[1], minute |-> t[2], second |-> t[3], microsecond |-> t[4]] :
    d \in FirstOf(DateList, NumDates), t \in FirstOf(TimeList, NumTimes) }

DtInputs == Datetimes \cup FirstOf(OtherDtList, NumOtherDts)

CallInputs ==
  { [dt |-> dt, lat |-> lat, lon |-> lon, timezone |-> tz] :
    dt \in DtInputs, lat \in FirstOf(LatList, NumLats),
    lon \in FirstOf(LonList, NumLons),
    tz \in FirstOf(TimezoneList, NumTimezones) }

NoRefrac == [branch |-> 0, value |-> 0]

Init ==
  /\ pc = "call"
  /\ args \in CallInputs
  /\ exc = "none"
  /\ locals = NoLocals
  /\ result = <<>>
  /\ elev_arg = 0
  /\ refrac = NoRefrac

\* one call of solar_angle, from its entry to its return or its exception
SolarAngleCall ==
  /\ pc = "call"
  /\ \E out \in {solar_angle(args.dt, args.lat, args.lon, args.timezone)} :
       /\ exc' = out.exc
       /\ locals' = out.locals
       /\ result' = out.result
  /\ pc' = "done"
  /\ UNCHANGED <<args, elev_arg, refrac>>

Next == SolarAngleCall

Spec == Init /\ [][Next]_vars

----------------------------------------------------------------------------
(* The refraction chain alone, on elevations that include its boundaries   *)

MaxElevSteps == 90

\* every whole degree up to MaxElevSteps either side of the horizon, the
\* three boundaries with their two neighbours, and NaN
ElevInputs ==
  {k * Deg : k \in (0 - MaxElevSteps)..MaxElevSteps}
  \cup {b + k : b \in {85 * Deg, 5 * Deg, -57500}, k \in {-1, 0, 1}}
  \cup {NaN}

InitRefraction ==
  /\ pc = "refract"
  /\ elev_arg \in ElevInputs
  /\ refrac = NoRefrac
  /\ args = [dt |-> [kind |-> "NoneType"], lat |-> 0, lon |-> 0,
             timezone |-> 0]
  /\ exc = "none"
  /\ locals = NoLocals
  /\ result = <<>>

\* the if / elif chain of the refraction on elev_arg; with no branch taken
\* approx_atmos_refrac stays unassigned (value NaN here, branch 0)
RefractionStep ==
  /\ pc = "refract"
  /\ refrac' = [branch |-> refrac_branch(elev_arg),
                value |-> IF refrac_branch(elev_arg) = 0 THEN NaN
                          ELSE approx_atmos_refrac(elev_arg)]
  /\ pc' = "refracted"
  /\ UNCHANGED <<args, exc, locals, result, elev_arg>>

NextRefraction == RefractionStep

SpecRefraction == InitRefraction /\ [][NextRefraction]_vars

----------------------------------------------------------------------------
(* The Julian date and the Julian century alone, on calls that may leave   *)
(* the timezone out                                                        *)

\* solar_angle(dt, lat, lon, timezone=0.0): the default of timezone, hours
timezone_default == 0

NumJulianDates == 8

\* dates before the epoch 1968-05-24, year, month, day
EarlyDateList == << <<1968, 5, 23>>, <<1960, 1, 1>>, <<1955, 7, 4>> >>

JulianDatetimes ==
  { [kind |-> "datetime", year |-> d[1], month |-> d[2], day |-> d[3],
     hour |-> t[1], minute |-> t[2], second |-> t[3], microsecond |-> t[4]] :
    d \in FirstOf(DateList \o EarlyDateList, NumJulianDates),
    t \in FirstOf(TimeList, NumTimes) }

\* the calls, with the timezone given or left out
JulianInputs ==
  { [dt |-> dt, timezone |-> tz] :
    dt \in JulianDatetimes, tz \in FirstOf(TimezoneList, NumTimezones) }
  \cup { [dt |-> dt] : dt \in JulianDatetimes }

\* the value of the parameter timezone in the call a
timezone_of(a) ==
  IF "timezone" \in DOMAIN a THEN a.timezone ELSE timezone_default

\* the call a with its parameter timezone bound
bound_call(a) == [dt |-> a.dt, timezone |-> timezone_of(a)]

InitJulian ==
  /\ pc = "julian"
  /\ args \in JulianInputs
  /\ exc = "none"
  /\ locals = NoLocals
  /\ result = <<>>
  /\ elev_arg = 0
  /\ refrac = NoRefrac

\* the statements of solar_angle that assign julian_date and julian_century
JulianStep ==
  /\ pc = "julian"
  /\ locals' = assign_julian_century(bound_call(args),
                                     assign_julian_date(bound_call(args)))
  /\ pc' = "julian_done"
  /\ UNCHANGED <<args, exc, result, elev_arg, refrac>>

NextJulian == JulianStep

SpecJulian == InitJulian /\ [][NextJulian]_vars


(***************************************************************************)
(* stats/summary.py: dixon_test.  Data values are integers (any unit), a   *)
(* non-finite value is NaN, Python's None is the value None, and the       *)
(* critical Q values are in thousandths.                                   *)
(***************************************************************************)

None == 0 - 2147483646

\* the critical Q value table, in thousandths
q_dicts ==
  [q90 |-> <<941, 765, 642, 560, 507, 468, 437, 412, 392, 376,
             361, 349, 338, 329, 320, 313, 306, 300, 295, 290,
             285, 281, 277, 273, 269, 266, 263, 260>>,
   q95 |-> <<970, 829, 710, 625, 568, 526, 493, 466, 444, 426,
             410, 396, 384, 374, 365, 356, 349, 342, 337, 331,
             326, 321, 317, 312, 308, 305, 301, 290>>,
   q99 |-> <<994, 926, 821, 740, 680, 634, 598, 568, 542, 522,
             503, 488, 475, 463, 452, 442, 433, 425, 418, 411,
             404, 399, 393, 388, 384, 380, 376, 372>>]

isfinite(v) == ~IsNaN(v)

\* x_arr[np.isfinite(x_arr)]
finite_values(x) == SelectSeq(x, isfinite)

min_size == 3

\* len(q_dicts[q_conf]) + min_size - 1
max_size(q_conf) == Len(q_dicts[q_conf]) + min_size - 1

\* sorted(x_arr): position i holds the value with fewer than i values below
\* it and at least i values not above it
sorted(x_arr) ==
  [i \in 1..Len(x_arr) |->
     CHOOSE v \in {x_arr[j] : j \in 1..Len(x_arr)} :
       /\ Cardinality({j \in 1..Len(x_arr) : x_arr[j] < v}) < i
       /\ i <= Cardinality({j \in 1..Len(x_arr) : x_arr[j] <= v})]

q_crit_q95(x_arr, q_conf) == q_dicts["q95"][Len(x_arr) - 3 + 1]

\* q_dicts[q_conf][len(x_arr) - 3], the index counted from 1 here
q_crit(x_arr, q_conf) == q_dicts[q_conf][Len(x_arr) - 3 + 1]

\* x_sorted[-1] - x_sorted[0]
x_range(x_sorted) == x_sorted[Len(x_sorted)] - x_sorted[1]

\* abs((x_sorted[1] - x_sorted[0]) / x_range) and abs((x_sorted[-1] -
\* x_sorted[-2]) / x_range), each kept as its numerator over the common
\* divisor x_range, which is positive where they are computed
Q_min(x_sorted) == Abs(x_sorted[2] - x_sorted[1])
Q_max(x_sorted) == Abs(x_sorted[Len(x_sorted)] - x_sorted[Len(x_sorted) - 1])

\* num / den > q / 1000 for den > 0
RatioGt(num, den, q) == 1000 * num > q * den

outliers_untested(xs, qc) ==
  IF x_range(xs) = 0 THEN <<None, None>>
  ELSE << IF Q_min(xs) >= Q_max(xs) THEN xs[1] ELSE None,
          IF Q_max(xs) >= Q_min(xs) THEN xs[Len(xs)] ELSE None >>

\* the list assigned to outliers in either branch of the test on x_range
outliers(xs, qc) ==
  IF x_range(xs) = 0 THEN <<None, None>>
  ELSE << IF RatioGt(Q_min(xs), x_range(xs), qc) /\ Q_min(xs) >= Q_max(xs)
            THEN xs[1] ELSE None,
          IF RatioGt(Q_max(xs), x_range(xs), qc) /\ Q_max(xs) >= Q_min(xs)
            THEN xs[Len(xs)] ELSE None >>

\* the local variables at the return: Q_min and Q_max exist only when the
\* else branch of the test on x_range ran
dixon_locals(xa, xs, qc) ==
  IF x_range(xs) = 0
    THEN [x_arr |-> xa, q_crit |-> qc, x_sorted |-> xs,
          x_range |-> x_range(xs)]
    ELSE [x_arr |-> xa, q_crit |-> qc, x_sorted |-> xs,
          x_range |-> x_range(xs), Q_min |-> Q_min(xs), Q_max |-> Q_max(xs)]

\* lines 310-326, on the finite sample and the critical value
dixon_compute(xa, qc) ==
  [exc |-> "none", value |-> outliers(sorted(xa), qc),
   locals |-> dixon_locals(xa, sorted(xa), qc)]

\* lines 295-308 on the finite sample, then the computation
dixon_checked(xa, left, right, q_conf) ==
  IF q_conf \notin DOMAIN q_dicts
    THEN [exc |-> "KeyError", value |-> <<>>, locals |-> [x_arr |-> xa]]
  ELSE IF Len(xa) < min_size
    THEN [exc |-> "ValueError", value |-> <<>>, locals |-> [x_arr |-> xa]]
  ELSE IF Len(xa) > max_size(q_conf)
    THEN [exc |-> "ValueError", value |-> <<>>, locals |-> [x_arr |-> xa]]
  ELSE IF ~(left \/ right)
    THEN [exc |-> "ValueError", value |-> <<>>, locals |-> [x_arr |-> xa]]
  ELSE dixon_compute(xa, q_crit(xa, q_conf))

\* dixon_test(x, left, right, q_conf): ends with an exception or returns
\* the list outliers
dixon_test(x, left, right, q_conf) ==
  dixon_checked(finite_values(x), left, right, q_conf)

MaxSampleLen == 4

\* the values of the short samples: two values close together at each end
\* of a wide range, and a non-finite value
SampleValues == {0, 1, 99, 100, NaN}

\* n finite values, the first far below the others, followed by k NaN
LongSample(n, k) ==
  [i \in 1..(n + k) |-> IF i > n THEN NaN ELSE IF i = 1 THEN 0 ELSE 200 + i]

\* every sample of up to MaxSampleLen values, and samples of one value
\* fewer than, exactly and one value more than the largest size allowed
Samples ==
  UNION {[1..n -> SampleValues] : n \in 0..MaxSampleLen}
  \cup {LongSample(n, k) : n \in 29..31, k \in 0..1}

DixonInputs ==
  [x : Samples, left : BOOLEAN, right : BOOLEAN,
   q_conf : {"q90", "q95", "q99", "q50"}]

InitDixon ==
  /\ pc = "dixon"
  /\ args \in DixonInputs
  /\ exc = "none"
  /\ locals = NoLocals
  /\ result = <<>>
  /\ elev_arg = 0
  /\ refrac = NoRefrac

\* one call of dixon_test on args
DixonCall ==
  /\ pc = "dixon"
  /\ \E out \in {dixon_test(args.x, args.left, args.right, args.q_conf)} :
       /\ exc' = out.exc
       /\ result' = out.value
       /\ locals' = out.locals
  /\ pc' = "dixon_done"
  /\ UNCHANGED <<args, elev_arg, refrac>>

NextDixon == DixonCall

SpecDixon == InitDixon /\ [][NextDixon]_vars


(***************************************************************************)
(* physchem/sat_vap.py: p_sat_h2o.  Temperatures are in units of 10^-3 K   *)
(* or degree Celsius, pressures in units of 10^-2 Pa, dimensionless        *)
(* quantities in units of 10^-6.                                           *)
(***************************************************************************)

\* e^k for k = -15, ..., 7, unit 10^-6
ExpTab ==
  << 0, 1, 2, 6, 17, 45, 123, 335, 912, 2479, 6738, 18316, 49787, 135335,
     367879, 1000000, 2718282, 7389056, 20085537, 54598150, 148413159,
     403428793, 1096633158 >>

ExpInt(k) == IF k < -15 THEN 0 ELSE ExpTab[k + 16]

\* e^y for 0 <= y <= 1/8 by its series to the fifth power
ExpSmall(y) ==
  One + Mul6(y, One + Mul6(y \div 2, One + Mul6(y \div 3,
                  One + Mul6(y \div 4, One + y \div 5))))

Sq(a) == Mul6(a, a)

\* e^r for 0 <= r < 1 as (e^(r/8))^8
ExpFrac(r) == Sq(Sq(Sq(ExpSmall(r \div 8))))

\* _np.exp(x): e^floor(x) * e^(x - floor(x))
Exp(x) == Mul6(ExpInt(x \div One), ExpFrac(x % One))

\* the series 2 * (z + z^3 / 3 + z^5 / 5 + z^7 / 7 + z^9 / 9) in z2 = z^2
LnSeries(z, z2) ==
  2 * Mul6(z, One + Mul6(z2, 333333 + Mul6(z2, 200000
                 + Mul6(z2, 142857 + Mul6(z2, 111111)))))

LnOfZ(z) == LnSeries(z, Mul6(z, z))

\* the natural logarithm of u, 0.5 < u < 2, with z = (u - 1) / (u + 1)
Ln(u) == LnOfZ(Div6((u - One) \div 2, (u + One) \div 2))

\* _np.log10(u) = ln(u) / ln(10)
Log10(u) == Mul6(Ln(u), 434294)

\* 10 ** y = e^(y * ln(10))
Pow10(y) == Exp(Mul6(y, 2302585))

T_0 == 273150

\* _np.array(temp, dtype="d") + (not kelvin) * T_0, one element
T_k(t, kelvin) ==
  IF IsNaN(t) THEN NaN ELSE IF kelvin THEN t ELSE t + T_0

\* T_k > 273.16 of one element
above_triple_point(tk) == FGt(tk, 273160)

\* 6.1121 * exp((18.678 - T_c / 234.5) * T_c / (257.14 + T_c)) * 100
e_sat_water_buck(T_c) ==
  Mul6(61121, Exp(Mul6(18678000 - Div6(T_c, 234500),
                       Div6(T_c, 257140 + T_c))))

\* 6.112 * exp(17.62 * T_c / (243.12 + T_c)) * 100
e_sat_water_cimo(T_c) ==
  Mul6(61120, Exp(Mul6(17620000, Div6(T_c, 243120 + T_c))))

\* the exponent of the Goff-Gratch equation over water in u_T and v_T;
\* 1.3816e-7 * 10 ** y is computed as 10 ** (y + log10(1.3816e-7)) and the
\* term 1.3816e-7 * 1 is below the unit; log10(1013.246) = 3.005715
gg_water_exponent(u_T, v_T) ==
    3005715
  - Mul6(7902980, u_T - One)
  + Mul6(5028080, Log10(u_T))
  - Pow10(Mul6(11344000, One - v_T) - 6859618)
  + Mul6(8133, Pow10(-Mul6(3491490, u_T - One)) - One)

\* 10 ** e_sat * 100 with u_T = 373.16 / T_k, v_T = T_k / 373.16
e_sat_water_gg(tk) ==
  RDiv(Pow10(gg_water_exponent(Div6(373160, tk), Div6(tk, 373160))), 100)

\* 6.1115 * exp((23.036 - T_c / 333.7) * T_c / (279.82 + T_c)) * 100
e_sat_ice_buck(T_c) ==
  Mul6(61115, Exp(Mul6(23036000 - Div6(T_c, 333700),
                       Div6(T_c, 279820 + T_c))))

\* 6.112 * exp(22.46 * T_c / (272.62 + T_c)) * 100
e_sat_ice_cimo(T_c) ==
  Mul6(61120, Exp(Mul6(22460000, Div6(T_c, 272620 + T_c))))

\* the exponent of the Goff-Gratch equation over ice;
\* log10(6.1071) = 0.785835
gg_ice_exponent(u_T, v_T) ==
    785835
  - Mul6(9097180, u_T - One)
  - Mul6(3566540, Log10(u_T))
  + Mul6(876793, One - v_T)

\* 10 ** e_sat * 100 with u_T = 273.16 / T_k, v_T = T_k / 273.16
e_sat_ice_gg(tk) ==
  RDiv(Pow10(gg_ice_exponent(Div6(273160, tk), Div6(tk, 273160))), 100)

\* e_sat of one element: the branches of lines 81-125
e_sat(tk, ice, method) ==
  IF IsNaN(tk) THEN NaN
  ELSE IF ~ice
    THEN IF method = "buck" THEN e_sat_water_buck(tk - T_0)
         ELSE IF method = "cimo" THEN e_sat_water_cimo(tk - T_0)
         ELSE e_sat_water_gg(tk)
    ELSE IF method = "buck" THEN e_sat_ice_buck(tk - T_0)
         ELSE IF method = "cimo" THEN e_sat_ice_cimo(tk - T_0)
         ELSE e_sat_ice_gg(tk)

\* _np.sum(T_k > 273.16) and ice, on the elements of temp
no_ice_exists(data, ice, kelvin) ==
  ice /\ \E i \in DOMAIN data : above_triple_point(T_k(data[i], kelvin))

\* p_sat_h2o(temp, ice, kelvin, method): temp is a scalar or an array, given
\* as its shape and the sequence of its elements; the result has the shape
\* of temp
p_sat_h2o(temp, ice, kelvin, method) ==
  IF no_ice_exists(temp.data, ice, kelvin)
    THEN [exc |-> "ValueError", value |-> <<>>]
    ELSE [exc |-> "none",
          value |-> [shape |-> temp.shape,
                     data |-> [i \in DOMAIN temp.data |->
                                 e_sat(T_k(temp.data[i], kelvin), ice,
                                       method)]]]

MaxTempLen == 2

\* temperatures in degree Celsius: cold, around the freezing point and the
\* triple point, warm, and not a number
CelsiusValues == {-40000, -15000, -5, 0, 5, 10, 11, 25000, NaN}

\* the same temperatures in the unit selected by kelvin
TempValues(kelvin) ==
  {IF kelvin /\ ~IsNaN(c) THEN c + T_0 ELSE c : c \in CelsiusValues}

Temps(kelvin) ==
  {[shape |-> "scalar", data |-> <<t>>] : t \in TempValues(kelvin)}
  \cup {[shape |-> "array", data |-> d] :
          d \in UNION {[1..n -> TempValues(kelvin)] : n \in 1..MaxTempLen}}

PSatInputs ==
  UNION {[temp : Temps(k), ice : BOOLEAN, kelvin : {k},
          method : {"gg", "buck", "cimo"}] : k \in BOOLEAN}

InitPSat ==
  /\ pc = "p_sat"
  /\ args \in PSatInputs
  /\ exc = "none"
  /\ locals = NoLocals
  /\ result = <<>>
  /\ elev_arg = 0
  /\ refrac = NoRefrac

\* one call of p_sat_h2o on args
PSatCall ==
  /\ pc = "p_sat"
  /\ \E out \in {p_sat_h2o(args.temp, args.ice, args.kelvin, args.method)} :
       /\ exc' = out.exc
       /\ result' = out.value
  /\ pc' = "p_sat_done"
  /\ UNCHANGED <<args, locals, elev_arg, refrac>>

NextPSat == PSatCall

SpecPSat == InitPSat /\ [][NextPSat]_vars


(***************************************************************************)
(* stats/timeseries.py: running_std, running_zscore, extract_window, and   *)
(* stats/summary.py: mad, zscore.  Data values are integers, statistics of *)
(* them are in units of 10^-2; a division by zero gives NaN, PosInf or     *)
(* NegInf as numpy's does.                                                 *)
(***************************************************************************)

PosInf == 2147483645
NegInf == 0 - 2147483645

NonFinite(v) == v \in {NaN, PosInf, NegInf}

RECURSIVE SeqSum(_)
SeqSum(s) == IF s = <<>> THEN 0 ELSE Head(s) + SeqSum(Tail(s))

SumOfSquares(s) == SeqSum([i \in DOMAIN s |-> s[i] * s[i]])

\* the next decimal digit of a square root: the largest base + d * step
\* whose square is at most v
SqrtDigit(v, base, step) ==
  base + step * Cardinality({d \in 1..9 : (base + d * step) * (base + d * step) <= v})

\* the integer part of the square root of v, 0 <= v < 10^8
Isqrt(v) == SqrtDigit(v, SqrtDigit(v, SqrtDigit(v, SqrtDigit(v, 0, 1000), 100), 10), 1)

\* a / b of two doubles, a and b in the same unit and the quotient in
\* units of 1 / scale
FloatDiv(a, b, scale) ==
  IF IsNaN(a) \/ IsNaN(b) THEN NaN
  ELSE IF b = 0 THEN (IF a = 0 THEN NaN ELSE IF a > 0 THEN PosInf ELSE NegInf)
  ELSE IF b > 0 THEN RDiv(scale * a, b)
  ELSE -RDiv(scale * a, -b)

\* the mean of the finite values fv, NaN when there is none
mean_of(fv) == IF fv = <<>> THEN NaN ELSE RDiv(100 * SeqSum(fv), Len(fv))

\* _np.nanmean(x)
nanmean(x) == mean_of(finite_values(x))

\* the standard deviation of the finite values fv with ddof degrees of
\* freedom removed: sqrt((k * sum(x^2) - sum(x)^2) / (k * (k - ddof))), NaN
\* when k - ddof <= 0
std_of(fv, ddof) ==
  IF Len(fv) - ddof <= 0 THEN NaN
  ELSE Isqrt((10000 * (Len(fv) * SumOfSquares(fv) - SeqSum(fv) * SeqSum(fv)))
             \div (Len(fv) * (Len(fv) - ddof)))

\* _np.nanstd(x, ddof=ddof)
nanstd(x, ddof) == std_of(finite_values(x), ddof)

\* the median of the sorted finite values s, NaN when there is none
median_of(s) ==
  IF s = <<>> THEN NaN
  ELSE IF Len(s) % 2 = 1 THEN 100 * s[(Len(s) + 1) \div 2]
  ELSE 50 * (s[Len(s) \div 2] + s[Len(s) \div 2 + 1])

\* _np.nanmedian(x)
nanmedian(x) == median_of(sorted(finite_values(x)))

\* x - m elementwise, x in data units and m in units of 10^-2
deviations(x, m) ==
  [i \in DOMAIN x |-> IF IsNaN(x[i]) \/ IsNaN(m) THEN NaN ELSE 100 * x[i] - m]

\* the median of absolute deviations that are in units of 10^-2
mad_of(d) ==
  IF d = <<>> THEN NaN
  ELSE RDiv(median_of(sorted([i \in DOMAIN d |-> Abs(d[i])])), 100)

\* mad(x) = nanmedian(abs(x - nanmedian(x)))
mad(x) == mad_of(finite_values(deviations(x, nanmedian(x))))

\* zscore(x, robust_zscore), elementwise; 0.6745 * d / mad is computed as
\* 6745 * d / (100 * mad) in units of 10^-2
zscore(x, robust_zscore) ==
  IF ~robust_zscore
    THEN [i \in DOMAIN x |->
            FloatDiv(deviations(x, nanmean(x))[i], nanstd(x, 1), 100)]
    ELSE [i \in DOMAIN x |->
            FloatDiv(IF IsNaN(deviations(x, nanmedian(x))[i]) THEN NaN
                     ELSE 6745 * deviations(x, nanmedian(x))[i],
                     IF IsNaN(mad(x)) THEN NaN ELSE 100 * mad(x), 1)]

\* [v] * count, empty when count <= 0
Repeat(v, count) == [j \in 1..count |-> v]

\* list(range(a, b)), empty when b <= a
Range(a, b) == [j \in 1..(b - a) |-> a + j - 1]

\* extract_window(series, i, left_size, right_size) on a series of n
\* elements: the indices, counted from 0, of the window centered at i
extract_window(n, i, left_size, right_size) ==
  IF i <= left_size
    THEN Repeat(0, left_size - i) \o Range(0, right_size + i + 1)
  ELSE IF i + right_size + 1 > n
    THEN Range(i - left_size, n) \o Repeat(n - 1, right_size + i + 1 - n)
  ELSE Range(i - left_size, i + right_size + 1)

\* an index a sequence of n elements accepts: -n, ..., n - 1
IndexOk(k, n) == -n <= k /\ k < n

\* series[k] for an accepted index k, a negative one counting from the end
Item(series, k) ==
  IF k < 0 THEN series[Len(series) + k + 1] ELSE series[k + 1]

\* series[window_idx]
Take(series, window_idx) ==
  [j \in DOMAIN window_idx |-> Item(series, window_idx[j])]

\* (int(window_size) - 1) // 2 and window_size - 1 - left_size
left_size(window_size) == (window_size - 1) \div 2
right_size(window_size) == window_size - 1 - left_size(window_size)

\* the window of position i, counted from 0
window(series, i, ws) ==
  Take(series, extract_window(Len(series), i, left_size(ws), right_size(ws)))

\* the elements of rnstd_series, one for each i in range(n)
rnstd_series(series, ws) ==
  [p \in 1..Len(series) |-> nanstd(window(series, p - 1, ws), 1)]

\* running_std(series, window_size)
running_std(series, window_size) ==
  IF Len(series) < window_size
    THEN [exc |-> "ValueError", value |-> <<>>]
    ELSE [exc |-> "none", value |-> rnstd_series(series, window_size)]

\* the elements of zscore_series, one for each i in range(n)
zscore_series(series, ws, robust) ==
  [p \in 1..Len(series) |->
     Item(zscore(window(series, p - 1, ws), robust), left_size(ws))]

\* running_zscore(series, window_size, robust_zscore): the subscript
\* [left_size] of a window's Z-scores raises IndexError when the window
\* does not accept that index
running_zscore(series, window_size, robust_zscore) ==
  IF Len(series) < window_size
    THEN [exc |-> "ValueError", value |-> <<>>]
  ELSE IF \E p \in 1..Len(series) :
            ~IndexOk(left_size(window_size),
                     Len(window(series, p - 1, window_size)))
    THEN [exc |-> "IndexError", value |-> <<>>]
  ELSE [exc |-> "none",
        value |-> zscore_series(series, window_size, robust_zscore)]

MaxSeriesLen == 4

SeriesValues == {0, 1, 3, NaN}

\* every series of up to MaxSeriesLen values
SeriesInputs == UNION {[1..n -> SeriesValues] : n \in 0..MaxSeriesLen}

\* window sizes from below 1 to above the longest series
WindowSizes == (-2)..(MaxSeriesLen + 1)

RunningInputs ==
  [series : SeriesInputs, window_size : WindowSizes]
  \cup [series : SeriesInputs, window_size : WindowSizes,
        robust_zscore : BOOLEAN]

\* a call of running_std has two arguments, one of running_zscore three
InitRunning ==
  /\ args \in RunningInputs
  /\ pc = IF "robust_zscore" \in DOMAIN args THEN "running_zscore"
          ELSE "running_std"
  /\ exc = "none"
  /\ locals = NoLocals
  /\ result = <<>>
  /\ elev_arg = 0
  /\ refrac = NoRefrac

RunningStdCall ==
  /\ pc = "running_std"
  /\ \E out \in {running_std(args.series, args.window_size)} :
       /\ exc' = out.exc
       /\ result' = out.value
  /\ pc' = "running_std_done"
  /\ UNCHANGED <<args, locals, elev_arg, refrac>>

RunningZscoreCall ==
  /\ pc = "running_zscore"
  /\ \E out \in {running_zscore(args.series, args.window_size,
                                args.robust_zscore)} :
       /\ exc' = out.exc
       /\ result' = out.value
  /\ pc' = "running_zscore_done"
  /\ UNCHANGED <<args, locals, elev_arg, refrac>>

NextRunning == RunningStdCall \/ RunningZscoreCall

SpecRunning == InitRunning /\ [][NextRunning]_vars


(***************************************************************************)
(* stats/summary.py: resist_mean, resist_std.  inlier_range is in units of *)
(* 1/2, quartiles are in units of 10^-2 and the limits of the inlier range *)
(* in units of 1/200 of the data unit.                                     *)
(***************************************************************************)

inlier_range_default == 3

\* the percentile 25 * quarters of the sorted finite values s by linear
\* interpolation between the values next to position quarters * (k - 1) / 4
percentile_of(s, quarters) ==
  IF (quarters * (Len(s) - 1)) % 4 = 0
    THEN 100 * s[(quarters * (Len(s) - 1)) \div 4 + 1]
    ELSE 100 * s[(quarters * (Len(s) - 1)) \div 4 + 1]
         + 25 * ((quarters * (Len(s) - 1)) % 4)
              * (  s[(quarters * (Len(s) - 1)) \div 4 + 2]
                 - s[(quarters * (Len(s) - 1)) \div 4 + 1])

\* q1, q3 = _np.nanpercentile(x, [25.0, 75.0])
q1(x) == percentile_of(sorted(finite_values(x)), 1)
q3(x) == percentile_of(sorted(finite_values(x)), 3)

uplim_minus(q_1, q_3, r) == 2 * q_3 - r * (q_3 - q_1)

\* q3 + inlier_range * iqr and q1 - inlier_range * iqr
uplim(q_1, q_3, r) == 2 * q_3 + r * (q_3 - q_1)
lolim(q_1, q_3, r) == 2 * q_1 - r * (q_3 - q_1)

\* x[(x >= lolim) & (x <= uplim)]: a NaN satisfies no comparison
RECURSIVE inliers(_, _, _)
inliers(x, lo, up) ==
  IF x = <<>> THEN <<>>
  ELSE (IF ~IsNaN(Head(x)) /\ 200 * Head(x) >= lo /\ 200 * Head(x) <= up
          THEN <<Head(x)>> ELSE <<>>)
       \o inliers(Tail(x), lo, up)

\* the sample with the outliers of Tukey's test removed
tukey_inliers(x, r) ==
  inliers(x, lolim(q1(x), q3(x), r), uplim(q1(x), q3(x), r))

\* resist_mean(x, inlier_range)
resist_mean(x, r) ==
  IF Len(finite_values(x)) <= 1 THEN nanmean(x)
  ELSE nanmean(tukey_inliers(x, r))

\* resist_std(x, inlier_range)
resist_std(x, r) ==
  IF Len(finite_values(x)) <= 1 THEN nanstd(x, 1)
  ELSE nanstd(tukey_inliers(x, r), 1)

\* inlier ranges 0, 0.5, 1.5 and 3
InlierRanges == {0, 1, 3, 6}

ResistSamples == UNION {[1..n -> SampleValues] : n \in 0..MaxSampleLen}

\* calls with and without the argument inlier_range
ResistInputs ==
  [x : ResistSamples, inlier_range : InlierRanges] \cup [x : ResistSamples]

inlier_range_of(a) ==
  IF "inlier_range" \in DOMAIN a THEN a.inlier_range
  ELSE inlier_range_default

InitResist ==
  /\ pc \in {"resist_mean", "resist_std"}
  /\ args \in ResistInputs
  /\ exc = "none"
  /\ locals = NoLocals
  /\ result = <<>>
  /\ elev_arg = 0
  /\ refrac = NoRefrac

ResistMeanCall ==
  /\ pc = "resist_mean"
  /\ result' = resist_mean(args.x, inlier_range_of(args))
  /\ pc' = "resist_mean_done"
  /\ UNCHANGED <<args, exc, locals, elev_arg, refrac>>

ResistStdCall ==
  /\ pc = "resist_std"
  /\ result' = resist_std(args.x, inlier_range_of(args))
  /\ pc' = "resist_std_done"
  /\ UNCHANGED <<args, exc, locals, elev_arg, refrac>>

NextResist == ResistMeanCall \/ ResistStdCall

SpecResist == InitResist /\ [][NextResist]_vars


(***************************************************************************)
(* stats/timeseries.py: simple_gapfill.  x and y hold integers, the        *)
(* gap-filled values are in units of 10^-2.                                *)
(***************************************************************************)

\* a[_np.isfinite(y)]: the elements of a at the positions where y is finite
RECURSIVE where_finite(_, _)
where_finite(a, y) ==
  IF y = <<>> THEN <<>>
  ELSE (IF NonFinite(Head(y)) THEN <<>> ELSE <<Head(a)>>)
       \o where_finite(Tail(a), Tail(y))

\* the value between the data points (x0, y0) and (x1, y1) at v
interp_between(v, x0, y0, x1, y1) ==
  100 * y0 + RDiv(100 * (y1 - y0) * (v - x0), x1 - x0)

\* the last data point at or before v, for xp[1] <= v
interval_of(v, xp) ==
  CHOOSE j \in DOMAIN xp : xp[j] <= v /\ (j = Len(xp) \/ v < xp[j + 1])

\* _np.interp at one point v for increasing xp: left below the data points
\* and right above them, each the nearest data value when it is None
interp_at(v, xp, fp, left, right) ==
  IF v < xp[1] THEN (IF left = None THEN 100 * fp[1] ELSE 100 * left)
  ELSE IF v > xp[Len(xp)]
    THEN (IF right = None THEN 100 * fp[Len(fp)] ELSE 100 * right)
  ELSE IF xp[interval_of(v, xp)] = v THEN 100 * fp[interval_of(v, xp)]
  ELSE interp_between(v, xp[interval_of(v, xp)], fp[interval_of(v, xp)],
                      xp[interval_of(v, xp) + 1], fp[interval_of(v, xp) + 1])

\* _np.interp(x, xp, fp, left=left, right=right): ValueError when there are
\* no data points
interp(x, xp, fp, left, right) ==
  IF xp = <<>> THEN [exc |-> "ValueError", value |-> <<>>]
  ELSE [exc |-> "none",
        value |-> [i \in DOMAIN x |-> interp_at(x[i], xp, fp, left, right)]]

\* simple_gapfill(x, y, left, right)
simple_gapfill(x, y, left, right) ==
  interp(x, where_finite(x, y), where_finite(y, y), left, right)

MaxGapLen == 4

\* strictly increasing times of n points, evenly or unevenly spaced
XGrid(spacing, n) == [i \in 1..n |-> IF spacing = "even" THEN i ELSE i * i]

YValues == {0, 3, 10, NaN, PosInf}

GapfillInputs ==
  UNION {[x : {XGrid(sp, n) : sp \in {"even", "uneven"}},
          y : [1..n -> YValues],
          left : {None, -7}, right : {None, 55}] : n \in 0..MaxGapLen}

InitGapfill ==
  /\ pc = "simple_gapfill"
  /\ args \in GapfillInputs
  /\ exc = "none"
  /\ locals = NoLocals
  /\ result = <<>>
  /\ elev_arg = 0
  /\ refrac = NoRefrac

\* one call of simple_gapfill on args
GapfillCall ==
  /\ pc = "simple_gapfill"
  /\ \E out \in {simple_gapfill(args.x, args.y, args.left, args.right)} :
       /\ exc' = out.exc
       /\ result' = out.value
  /\ pc' = "simple_gapfill_done"
  /\ UNCHANGED <<args, locals, elev_arg, refrac>>

NextGapfill == GapfillCall

SpecGapfill == InitGapfill /\ [][NextGapfill]_vars


(***************************************************************************)
(* physchem/sat_vap.py: dew_temp.  scipy's newton is not part of the       *)
(* source: it is taken by its contract, to return a zero of the residual   *)
(* or to raise RuntimeError when it did not converge, and the zeros it can *)
(* find are those on a grid of temperatures around its starting point x0.  *)
(***************************************************************************)

guess_default == 25000

e_sat_residual_over_ice(T, es, kelvin, method) ==
  e_sat(T_k(T, kelvin), TRUE, method) - es

\* __e_sat_residual(T, e_sat, kelvin, method): p_sat_h2o is called without
\* ice, so over water, where it raises nothing
e_sat_residual(T, es, kelvin, method) ==
  e_sat(T_k(T, kelvin), FALSE, method) - es

MaxSearch == 8

\* the temperatures newton can reach from x0, 5 K apart
Candidates(x0) == {x0 + 5000 * k : k \in (0 - MaxSearch)..MaxSearch}

\* _optimize.newton(__e_sat_residual, x0=guess, args=(e_sat, kelvin,
\* method)): every outcome the contract allows
newton(x0, es, kelvin, method) ==
  {[exc |-> "RuntimeError", root |-> NaN]}
  \cup {[exc |-> "none", root |-> T] :
          T \in {c \in Candidates(x0) :
                   e_sat_residual(c, es, kelvin, method) = 0}}

\* guess += T_0 if kelvin
shifted_guess(guess, kelvin) == IF kelvin THEN guess + T_0 ELSE guess

\* T_dew after the try statement: the root, or NaN after RuntimeError
T_dew(out) == IF out.exc = "RuntimeError" THEN NaN ELSE out.root

\* temperatures in degree Celsius whose saturation pressures are given to
\* dew_temp
DewCelsius == {-40000, -15000, 0, 10000, 25000, 35000}

\* saturation pressures over water and over ice by each method, and a
\* negative pressure, which no temperature has
DewInputsOf(method) ==
  {e_sat(t + T_0, FALSE, method) : t \in DewCelsius}
  \cup {e_sat(t + T_0, TRUE, method) : t \in {c \in DewCelsius : c <= 0}}
  \cup {-10000}

\* calls with and without the argument guess
DewInputs ==
  UNION {[e_sat : DewInputsOf(m), guess : {0, 10000}, kelvin : BOOLEAN,
          method : {m}]
         \cup [e_sat : DewInputsOf(m), kelvin : BOOLEAN, method : {m}]
         : m \in {"gg", "buck", "cimo"}}

guess_of(a) == IF "guess" \in DOMAIN a THEN a.guess ELSE guess_default

InitDew ==
  /\ pc = "dew_temp"
  /\ args \in DewInputs
  /\ exc = "none"
  /\ locals = NoLocals
  /\ result = <<>>
  /\ elev_arg = 0
  /\ refrac = NoRefrac

\* one call of dew_temp on args: RuntimeError is caught, so no outcome of
\* newton ends the call with an exception
DewTempCall ==
  /\ pc = "dew_temp"
  /\ \E out \in newton(shifted_guess(guess_of(args), args.kelvin),
                       args.e_sat, args.kelvin, args.method) :
       /\ locals' = [guess |-> shifted_guess(guess_of(args), args.kelvin),
                     newton |-> out.exc]
       /\ result' = T_dew(out)
  /\ pc' = "dew_temp_done"
  /\ UNCHANGED <<args, exc, elev_arg, refrac>>

NextDew == DewTempCall

SpecDew == InitDew /\ [][NextDew]_vars

----------------------------------------------------------------------------
(* The claims                                                              *)

\* solar_angle has run to its end on a datetime and returned its record
Returned == pc = "done" /\ exc = "none"

\* solar_angle has run past its type check, to a return or an exception
Computed == pc = "done" /\ exc # "TypeError"

\* C1: every dt that is no datetime.datetime, a bare date included, ends the
\* call with TypeError, with no local assigned and no record returned
C1_TypeErrorBeforeComputation ==
  (pc = "done" /\ args.dt.kind # "datetime")
    => (exc = "TypeError" /\ DOMAIN locals = {} /\ result = <<>>)

C1_DateRejected ==
  pc = "done" /\ args.dt.kind = "date" /\ exc = "TypeError"

RefracCond(i, e) ==
  IF i = 1 THEN refrac_cond1(e)
  ELSE IF i = 2 THEN refrac_cond2(e)
  ELSE IF i = 3 THEN refrac_cond3(e)
  ELSE refrac_cond4(e)

\* C2: on every finite elevation exactly one of the four refraction
\* conditions holds and the chain takes that branch; 85 and 5 belong to the
\* branch they close from above (2 and 3), -0.575 to the last one (4)
C2_BranchesPartition ==
  (pc = "refracted" /\ ~IsNaN(elev_arg))
    => /\ Cardinality({i \in 1..4 : RefracCond(i, elev_arg)}) = 1
       /\ refrac.branch \in 1..4
       /\ RefracCond(refrac.branch, elev_arg)
       /\ (elev_arg = 85 * Deg => refrac.branch = 2)
       /\ (elev_arg = 5 * Deg => refrac.branch = 3)
       /\ (elev_arg = -57500 => refrac.branch = 4)

C2_BoundaryFiveTaken ==
  pc = "refracted" /\ elev_arg = 5 * Deg /\ refrac.branch = 3

\* C3: on every datetime input solar_angle returns its ten-field record and
\* raises nothing, a numeric degeneracy showing only as a non-finite field
C3_DegeneracyNeverRaises ==
  (pc = "done" /\ args.dt.kind = "datetime")
    => (exc = "none" /\ Len(result) = 10)

\* C4: the true solar time is wrapped into one day of 1440 minutes, the
\* hour angle is tst/4 - 180 when tst/4 >= 0 and tst/4 + 180 otherwise, and
\* the returned hour_angle lies in [-180, 180]
C4_HourAngleRange ==
  Returned
    => LET tst == locals.true_solar_time_min
           ha  == Field(result, "hour_angle")
       IN /\ 0 <= tst /\ tst < 1440 * Deg
          /\ ha = IF RDiv(tst, 4) >= 0 THEN RDiv(tst, 4) - 180 * Deg
                  ELSE RDiv(tst, 4) + 180 * Deg
          /\ -180 * Deg <= ha /\ ha <= 180 * Deg

C4_WrappedDay ==
  /\ Returned
  /\ locals.fractional_day * 144 + locals.eq_time + 4 * args.lon
       - 60 * Deg * args.timezone >= 1440 * Deg
  /\ Field(result, "hour_angle") > 0

\* C5: in every returned record the elevation is 90 minus the zenith, the
\* corrected zenith is the zenith minus the refraction, the corrected
\* elevation is the elevation plus the refraction, and the two corrected
\* angles sum to 90 degrees
C5_ComplementaryAngles ==
  Returned
    => LET z  == Field(result, "solar_zenith_angle")
           e  == Field(result, "solar_elevation_angle")
           r  == Field(result, "atmospheric_refraction")
           zc == Field(result, "solar_zenith_angle_corrected")
           ec == Field(result, "solar_elevation_angle_corrected")
       IN /\ e = 90 * Deg - z
          /\ zc = z - r
          /\ ec = e + r
          /\ zc + ec = 90 * Deg

C5_RefractedRecord ==
  /\ Returned
  /\ locals.refrac_branch = 3
  /\ Field(result, "atmospheric_refraction") > 0

\* C6: when the sunrise hour angle is defined and positive, sunrise is
\* before solar noon, solar noon before sunset, and both are the same
\* HA_sunrise * 4 / 1440 of a day away from solar noon
C6_SunriseNoonSunset ==
  (Computed /\ ~IsNaN(locals.HA_sunrise) /\ locals.HA_sunrise > 0)
    => LET noon == locals.solar_noon_local
           half == MinutesToDay(locals.HA_sunrise * 4)
       IN /\ locals.sunrise_local < noon
          /\ noon < locals.sunset_local
          /\ noon - locals.sunrise_local = half
          /\ locals.sunset_local - noon = half

C6_SunRisesAndSets ==
  /\ Returned
  /\ ~IsNaN(locals.HA_sunrise)
  /\ locals.HA_sunrise > 0
  /\ Field(result, "sunrise") < Field(result, "solar_noon")
  /\ Field(result, "solar_noon") < Field(result, "sunset")

InConventionalRange ==
  /\ -180 * Deg <= args.lon /\ args.lon <= 180 * Deg
  /\ -12 <= args.timezone /\ args.timezone <= 12

\* C7 as stated: for every longitude in [-180, 180] and timezone in
\* [-12, 12] the returned solar_noon is within [0, 1]
C7_SolarNoonInUnitInterval ==
  (Returned /\ InConventionalRange)
    => (0 <= Field(result, "solar_noon") /\ Field(result, "solar_noon") <= One)

\* C7 as amended: solar_noon is (720 - 4 lon - eq_time + 60 timezone) / 1440
\* and is within [0, 1] for every longitude in [-180, 180] and timezone in
\* [-12, 12] that are at most 700 minutes apart, |60 timezone - 4 lon| <= 700
C7_SolarNoonInUnitIntervalNearZone ==
  (Returned /\ InConventionalRange)
    => LET noon == Field(result, "solar_noon")
       IN /\ noon = MinutesToDay(720 * Deg - 4 * args.lon - locals.eq_time
                                 + args.timezone * 60 * Deg)
          /\ Abs(60 * Deg * args.timezone - 4 * args.lon) <= 700 * Deg
               => (0 <= noon /\ noon <= One)

C7_NoonInZone ==
  /\ Returned
  /\ args.lon = -118 * Deg
  /\ args.timezone = -8
  /\ 0 <= Field(result, "solar_noon")
  /\ Field(result, "solar_noon") <= One

\* C8: on every input the returned solar_azimuth_angle lies in [0, 360),
\* being (acos + 180) mod 360 when hour_angle > 0 and (540 - acos) mod 360
\* when hour_angle <= 0
C8_AzimuthInRange ==
  Returned
    => LET az == Field(result, "solar_azimuth_angle")
           ha == Field(result, "hour_angle")
       IN /\ ~IsNaN(az)
          /\ 0 <= az /\ az < 360 * Deg
          /\ ha > 0 => az = (locals.azimuth_acos + 180 * Deg) % (360 * Deg)
          /\ ha <= 0 => az = (540 * Deg - locals.azimuth_acos) % (360 * Deg)

\* C10: the record has exactly the ten fields solar_noon, sunrise, sunset,
\* hour_angle, solar_zenith_angle, solar_elevation_angle,
\* solar_azimuth_angle, atmospheric_refraction,
\* solar_zenith_angle_corrected, solar_elevation_angle_corrected, in this
\* order, and each field holds the quantity computed under that name
C10_FieldsHoldTheirQuantities ==
  Returned
    => /\ Len(result) = 10
       /\ SolarAngleResultFields =
            << "solar_noon", "sunrise", "sunset", "hour_angle",
               "solar_zenith_angle", "solar_elevation_angle",
               "solar_azimuth_angle", "atmospheric_refraction",
               "solar_zenith_angle_corrected",
               "solar_elevation_angle_corrected" >>
       /\ result[1] = locals.solar_noon_local
       /\ result[2] = locals.sunrise_local
       /\ result[3] = locals.sunset_local
       /\ result[4] = locals.hour_angle
       /\ result[5] = locals.solar_zenith_angle
       /\ result[6] = locals.solar_elev_angle
       /\ result[7] = locals.solar_azimuth_angle
       /\ result[8] = locals.approx_atmos_refrac
       /\ result[9] = locals.solar_zenith_angle_corr
       /\ result[10] = locals.solar_elev_angle_corr

C10_TenDistinctValues ==
  Returned /\ Cardinality({result[i] : i \in 1..10}) = 10

\* C11: julian_date is 2440000.5 + the whole days from 1968-05-24T00:00:00
\* to dt + the remaining whole seconds / 86400 - timezone / 24, timezone
\* being 0 when it is left out (here in seconds from 2440000.5), and
\* julian_century is (julian_date - 2451545.0) / 36525 (here the nearest
\* multiple of 10^-9); 1968-05-24T00:00:00 with timezone 0 gives 2440000.5
\* and 2000-01-01T12:00:00 with timezone 0 gives century 0
C11_JulianDateAndCentury ==
  pc = "julian_done"
    => \E tz \in {IF "timezone" \in DOMAIN args THEN args.timezone ELSE 0} :
       \E x \in {locals.julian_date - 997444800} :
         /\ locals.julian_date =
              time_delta_days(args.dt) * 86400
              + args.dt.hour * 3600 + args.dt.minute * 60 + args.dt.second
              - tz * 3600
         /\ 2 * Abs(39447 * (locals.julian_century - 12500 * (x \div 39447))
                    - 12500 * (x % 39447)) <= 39447
         /\ ( /\ tz = 0
              /\ <<args.dt.year, args.dt.month, args.dt.day>> = <<1968, 5, 24>>
              /\ <<args.dt.hour, args.dt.minute, args.dt.second>> = <<0, 0, 0>>
            ) => locals.julian_date = 0
         /\ ( /\ tz = 0
              /\ <<args.dt.year, args.dt.month, args.dt.day>> = <<2000, 1, 1>>
              /\ <<args.dt.hour, args.dt.minute, args.dt.second>> = <<12, 0, 0>>
            ) => locals.julian_century = 0

C11_J2000WithDefaultTimezone ==
  /\ pc = "julian_done"
  /\ "timezone" \notin DOMAIN args
  /\ <<args.dt.year, args.dt.month, args.dt.day>> = <<2000, 1, 1>>
  /\ <<args.dt.hour, args.dt.minute, args.dt.second>> = <<12, 0, 0>>
  /\ locals.julian_date = 997444800
  /\ locals.julian_century = 0


\* the formula of the branch on the other side of the boundary next to
\* elevation e: e on a boundary is in the branch below it, e one unit above
\* a boundary is in the branch above it
RefracAcross(e) ==
  IF e = 85 * Deg THEN 0
  ELSE IF e = 85 * Deg + 1 THEN refrac_formula2(e)
  ELSE IF e = 5 * Deg THEN refrac_formula2(e)
  ELSE IF e = 5 * Deg + 1 THEN refrac_formula3(e)
  ELSE IF e = -57500 THEN refrac_formula3(e)
  ELSE refrac_formula4(e)

\* C12 as stated: at the boundaries 85, 5 and -0.575 degrees the refraction of the
\* branch taken and the formula of the branch on the other side of the
\* boundary agree to within the rounding of the fixed point, two units of
\* 10^-5 degree (the refraction has no jump there).
C12_RefractionContinuous ==
  (pc = "refracted"
   /\ elev_arg \in {b + k : b \in {85 * Deg, 5 * Deg, -57500}, k \in {0, 1}})
    => Abs(refrac.value - RefracAcross(elev_arg)) <= 2

\* C12 amended: at each boundary the refraction of the branch taken and the
\* formula of the branch on the other side differ, by more than the
\* rounding of the fixed point and by less than 0.0015 degree: about
\* 0.0014 degree at 85 degrees, 0.0005 at 5 and 0.0001 at -0.575.
C12_RefractionJumpsBounded ==
  (pc = "refracted"
   /\ elev_arg \in {b + k : b \in {85 * Deg, 5 * Deg, -57500}, k \in {0, 1}})
    => /\ Abs(refrac.value - RefracAcross(elev_arg)) > 2
       /\ Abs(refrac.value - RefracAcross(elev_arg)) < 150
       /\ elev_arg \in {85 * Deg, 85 * Deg + 1}
            => Abs(refrac.value - RefracAcross(elev_arg)) \in 135..145
       /\ elev_arg \in {5 * Deg, 5 * Deg + 1}
            => Abs(refrac.value - RefracAcross(elev_arg)) \in 42..52
       /\ elev_arg \in {-57500, -57499}
            => Abs(refrac.value - RefracAcross(elev_arg)) \in 5..15

\* at 85 degrees the second branch was taken and gave 0.00141 degree, where
\* the branch above gives 0
C12_JumpAt85 ==
  /\ pc = "refracted"
  /\ elev_arg = 85 * Deg
  /\ refrac.branch = 2
  /\ refrac.value = 141

\* the finite values of the sample given to dixon_test
FiniteSample == {args.x[i] : i \in {j \in 1..Len(args.x) : ~IsNaN(args.x[j])}}
FiniteCount == Cardinality({j \in 1..Len(args.x) : ~IsNaN(args.x[j])})
SampleMin == CHOOSE m \in FiniteSample : \A y \in FiniteSample : m <= y
SampleMax == CHOOSE m \in FiniteSample : \A y \in FiniteSample : m >= y
DixonReturned == pc = "dixon_done" /\ exc = "none"

\* C13: dixon_test honours left and right: with left False position 0 of
\* the returned list is None and with right False position 1 is None.  The
\* code does not satisfy this.
C13_FlagsHonoured ==
  DixonReturned =>
    /\ (~args.left => result[1] = None)
    /\ (~args.right => result[2] = None)


\* C14: with a supported confidence level dixon_test raises ValueError
\* exactly when the finite sample has fewer than 3 or more than 30 values or
\* both flags are False; otherwise it returns a list, and the critical
\* value it used is the entry of the level's table at index size - 3.
C14_SizeAndFlagChecks ==
  (pc = "dixon_done" /\ args.q_conf \in {"q90", "q95", "q99"})
    => /\ exc \in {"none", "ValueError"}
       /\ exc = "ValueError"
            <=> \/ FiniteCount < 3
                \/ FiniteCount > 30
                \/ (~args.left /\ ~args.right)
       /\ exc = "none"
            => /\ result \in Seq(Int)
               /\ locals.q_crit = q_dicts[args.q_conf][FiniteCount - 2]

\* a sample of the largest size allowed, with a non-finite value removed,
\* was tested against the last entry of the 99 % table
C14_LargestSampleTested ==
  /\ DixonReturned
  /\ Len(args.x) = 31
  /\ FiniteCount = 30
  /\ args.q_conf = "q99"
  /\ locals.q_crit = 372

\* C15: dixon_test returns a list of two elements, the first None or the
\* minimum of the finite sample, the second None or the maximum; a value is
\* returned only if its gap to its nearest neighbour divided by the sample
\* range is strictly greater than the critical value; when the range is 0
\* the list is [None, None] and the two ratios were not computed.
C15_OutlierList ==
  DixonReturned
    => /\ Len(result) = 2
       /\ result[1] \in {None, SampleMin}
       /\ result[2] \in {None, SampleMax}
       /\ result[1] # None
            => 1000 * (locals.x_sorted[2] - SampleMin)
                 > locals.q_crit * (SampleMax - SampleMin)
       /\ result[2] # None
            => 1000 * (SampleMax - locals.x_sorted[FiniteCount - 1])
                 > locals.q_crit * (SampleMax - SampleMin)
       /\ SampleMax = SampleMin
            => /\ result = <<None, None>>
               /\ "Q_min" \notin DOMAIN locals
               /\ "Q_max" \notin DOMAIN locals

\* a minimum far from its neighbour was returned as an outlier and a
\* maximum close to its neighbour was not
C15_MinimumReturned ==
  /\ DixonReturned
  /\ args.x = <<100, 0, 99, 100>>
  /\ result = <<0, None>>


\* the temperature of element i of the argument, in 10^-3 degree Celsius
CelsiusOf(i) ==
  IF args.kelvin THEN args.temp.data[i] - T_0 ELSE args.temp.data[i]

\* C16: p_sat_h2o raises ValueError exactly when ice is enabled and some
\* element of the temperature is above 0 degree Celsius (273.15 K), in
\* either unit; with ice disabled it never raises.  The code does not
\* satisfy this.
C16_IceAboveFreezingRaises ==
  pc = "p_sat_done"
    => (exc = "ValueError"
          <=> /\ args.ice
              /\ \E i \in DOMAIN args.temp.data :
                   ~IsNaN(args.temp.data[i]) /\ CelsiusOf(i) > 0)


RunningDone == pc \in {"running_std_done", "running_zscore_done"}

\* C17: running_std and running_zscore raise ValueError exactly when
\* window_size is larger than the number of elements of the series, and
\* otherwise return a series with one value for each position of the
\* input.  The code does not satisfy this.
C17_WindowCheckAndLength ==
  RunningDone
    => IF args.window_size > Len(args.series)
         THEN exc = "ValueError"
         ELSE exc = "none" /\ Len(result) = Len(args.series)


\* the values of the sample inside [Q1 - r * IQR, Q3 + sign * r * IQR],
\* bounds included, NaN left out, and the statistic of the call over w
InlierRange(sign) ==
  inliers(args.x,
          2 * q1(args.x) - inlier_range_of(args) * (q3(args.x) - q1(args.x)),
          2 * q3(args.x)
            + sign * inlier_range_of(args) * (q3(args.x) - q1(args.x)))
StatisticOf(w) == IF pc = "resist_mean_done" THEN nanmean(w) ELSE nanstd(w, 1)
ResistDone == pc \in {"resist_mean_done", "resist_std_done"}

FinitePos == {i \in DOMAIN args.y : ~NonFinite(args.y[i])}
PrevFinite(i) == CHOOSE p \in FinitePos : p < i /\ \A q \in FinitePos : q < i => q <= p
NextFinite(i) == CHOOSE p \in FinitePos : p > i /\ \A q \in FinitePos : q > i => q >= p
Interior(i) == (\E p \in FinitePos : p < i) /\ (\E p \in FinitePos : p > i)

\* what C19 says position i of the result holds when every position is
\* non-finite, or i is before the first or after the last finite one
GapfillEdge(i) ==
  IF \E p \in FinitePos : p > i
    THEN (IF args.left = None THEN 100 * args.y[NextFinite(i)]
          ELSE 100 * args.left)
    ELSE IF \E p \in FinitePos : p < i
      THEN (IF args.right = None THEN 100 * args.y[PrevFinite(i)]
            ELSE 100 * args.right)
      ELSE result[i]

\* what C19 says position i of the result holds
GapfillExpected(i) ==
  IF i \in FinitePos THEN 100 * args.y[i]
  ELSE IF Interior(i)
    THEN 100 * args.y[PrevFinite(i)]
         + RDiv(100 * (args.y[NextFinite(i)] - args.y[PrevFinite(i)])
                    * (args.x[i] - args.x[PrevFinite(i)]),
                args.x[NextFinite(i)] - args.x[PrevFinite(i)])
    ELSE GapfillEdge(i)

\* C19: simple_gapfill returns a series of the input's length in which a
\* finite y is kept, a non-finite y between two finite ones is replaced by
\* their linear interpolation, and one before the first or after the last
\* finite y by left / right, or by the nearest finite value when these are
\* None.  The code does not satisfy this.
C19_GapsFilled ==
  pc = "simple_gapfill_done"
    => /\ exc = "none"
       /\ Len(result) = Len(args.y)
       /\ \A i \in DOMAIN args.y : result[i] = GapfillExpected(i)


\* C20: dew_temp ends without an exception whatever newton did; after a
\* RuntimeError of newton it returns NaN; after a convergence it returns
\* the root in the scale selected by kelvin, a temperature whose saturation
\* pressure over water by the chosen method is e_sat; newton started from
\* guess, shifted by 273.15 when kelvin is True.
C20_DewTemp ==
  pc = "dew_temp_done"
    => /\ exc = "none"
       /\ locals.guess = guess_of(args) + (IF args.kelvin THEN T_0 ELSE 0)
       /\ locals.newton = "RuntimeError" => IsNaN(result)
       /\ locals.newton = "none"
            => /\ ~IsNaN(result)
               /\ e_sat(IF args.kelvin THEN result ELSE result + T_0,
                        FALSE, args.method) = args.e_sat
               /\ (result > 200000) = args.kelvin

\* the dew temperature 298.15 K was found from the default guess for the
\* saturation pressure of 25 degree Celsius
C20_RootInKelvin ==
  /\ pc = "dew_temp_done"
  /\ "guess" \notin DOMAIN args
  /\ args.kelvin
  /\ args.method = "gg"
  /\ args.e_sat = 316518
  /\ result = 298150

====
